---------------------------- MODULE Spec2Model ----------------------------
(***************************************************************************)
(* Model of the RS 69 routine viewer (bokaif/rs69).                        *)
(*                                                                         *)
(* Two application variants exist in the repository:                       *)
(*   - the ICS variant (the App component carried in src/vite.config.ts,   *)
(*     lines 48-790): section lookup, hash/localStorage caching, .ics      *)
(*     export;                                                             *)
(*   - the calendar-API variant (src/src/App.tsx): the same schedule       *)
(*     derivation, export through a Google Calendar batch.                 *)
(*                                                                         *)
(* JavaScript strings that the code parses (time ranges, section           *)
(* identifiers, the URL fragment) are sequences of one-character strings,  *)
(* so that split, trim, padStart, toLowerCase and the regular expressions  *)
(* are computed character by character.  Display strings that the code     *)
(* only copies (subject, faculty, room, meal names) are TLA+ strings.      *)
(*                                                                         *)
(* Instants are integers: minutes of local wall-clock time since the       *)
(* local midnight that starts Sunday 2024-08-25.  One clock reading is one *)
(* integer; two readings "in the same millisecond" are equal readings.     *)
(***************************************************************************)
EXTENDS Integers, Sequences, FiniteSets, TLC

VARIABLES
    classesData,      \* imported ../classes.json
    diningData,       \* imported ../dining.json
    currentView,      \* useState 'input' | 'schedule'
    selectedSection,  \* useState string (characters)
    isLoading,        \* useState boolean
    schedule,         \* useState TimeSlot[]
    isExporting,      \* useState boolean
    storage,          \* localStorage item 'rs-routine-last-section', or Null
    hash,             \* window.location.hash without the leading '#'
    hashEvents,       \* hashchange events queued and not yet dispatched
    submitTimer,      \* handleSectionSubmit suspended at its 800 ms await
    renderPending,    \* a state setter was called; the component body re-runs
    mounted,          \* the initial-load effect has run
    initialSection,   \* getInitialSection() of the first render (effect closure)
    alertMsg,         \* text of the last alert() shown
    icsContent,       \* lines of the last document generateICS returned (engine)
    objectUrl,        \* an object URL was created and not revoked
    linkInPage,       \* the temporary download link is in document.body
    variant,          \* "ics" (src/vite.config.ts) or "google" (src/src/App.tsx)
    gcalEvents,       \* resources of the last calendar-API batch
    lastLoaded,       \* history: identifier of the last successful load
    freshGrid,        \* history: grid each identifier loads in the initial state
    submitted,        \* history: identifier of the successful submit in progress
    eventCauses,      \* history: what queued each pending hashchange event
    handled,          \* history: what queued the event handled last
    selfEvents,       \* history: events queued by the page's own fragment
                      \* writes since the last trigger from outside
    lastTrigger       \* history: the last thing the user did, or "startup"

vars == << classesData, diningData, currentView, selectedSection, isLoading,
           schedule, isExporting, storage, hash, hashEvents, submitTimer,
           renderPending, mounted, initialSection, alertMsg, icsContent,
           objectUrl, linkInPage, variant, gcalEvents, lastLoaded, freshGrid, submitted,
           eventCauses, handled, selfEvents, lastTrigger >>

-----------------------------------------------------------------------------
(* JavaScript values                                                       *)

\* a missing property or a failed find(): an absent grid cell, an absent row
Undefined == [undefined |-> TRUE]

\* localStorage.getItem of an absent key (no string of characters equals it)
Null == <<"null">>

\* a JavaScript number: a finite integer, NaN, or undefined where a
\* destructured array element is missing
Num(n) == [kind |-> "number", val |-> n]

NaN == [kind |-> "NaN", val |-> 0]

UndefinedNum == [kind |-> "undefined", val |-> 0]

\* a Date: a valid instant (minutes) or Invalid Date
DateOf(t) == [valid |-> TRUE, t |-> t]

InvalidDate == [valid |-> FALSE, t |-> 0]

-----------------------------------------------------------------------------
(* Strings as character sequences                                          *)

Digits == <<"0", "1", "2", "3", "4", "5", "6", "7", "8", "9">>

UpperLetters == <<"A", "B", "C", "D", "E", "F", "G", "H", "I", "J", "K", "L", "M",
                  "N", "O", "P", "Q", "R", "S", "T", "U", "V", "W", "X", "Y", "Z">>

LowerLetters == <<"a", "b", "c", "d", "e", "f", "g", "h", "i", "j", "k", "l", "m",
                  "n", "o", "p", "q", "r", "s", "t", "u", "v", "w", "x", "y", "z">>

Range(s) == {s[i] : i \in DOMAIN s}

IsDigit(c) == c \in Range(Digits)

IsAlnum(c) == c \in Range(Digits) \cup Range(UpperLetters) \cup Range(LowerLetters)

DigitValue(c) == (CHOOSE i \in DOMAIN Digits : Digits[i] = c) - 1

\* /^\d+$/.test(s)
IsAllDigits(s) == Len(s) > 0 /\ \A i \in DOMAIN s : IsDigit(s[i])

\* one character of String.prototype.toLowerCase
LowerChar(c) ==
    IF c \in Range(UpperLetters)
    THEN LowerLetters[CHOOSE i \in DOMAIN UpperLetters : UpperLetters[i] = c]
    ELSE c

\* String.prototype.toLowerCase
toLowerCase(s) == [i \in DOMAIN s |-> LowerChar(s[i])]

\* String.prototype.trim (the only white space the model's strings hold is " ")
RECURSIVE TrimStart(_)
TrimStart(s) == IF s # <<>> /\ Head(s) = " " THEN TrimStart(Tail(s)) ELSE s

RECURSIVE TrimEnd(_)
TrimEnd(s) ==
    IF s # <<>> /\ s[Len(s)] = " " THEN TrimEnd(SubSeq(s, 1, Len(s) - 1)) ELSE s

trim(s) == TrimEnd(TrimStart(s))

\* String.prototype.padStart(n, '0')
RECURSIVE padStart(_, _)
padStart(s, n) == IF Len(s) >= n THEN s ELSE padStart(<<"0">> \o s, n)

\* String.prototype.split(ch) for a one-character separator
RECURSIVE SplitFrom(_, _, _)
SplitFrom(s, ch, acc) ==
    IF s = <<>> THEN <<acc>>
    ELSE IF Head(s) = ch THEN <<acc>> \o SplitFrom(Tail(s), ch, <<>>)
    ELSE SplitFrom(Tail(s), ch, Append(acc, Head(s)))

split(s, ch) == SplitFrom(s, ch, <<>>)

\* position of the first "AM" or "PM" in s, 0 when there is none
PeriodAt(s) ==
    LET hits == {i \in 1..(Len(s) - 1) : s[i] \in {"A", "P"} /\ s[i + 1] = "M"}
    IN  IF hits = {} THEN 0 ELSE CHOOSE i \in hits : \A j \in hits : i <= j

\* the first two elements of time.split(/([AP]M)/): the text before the first
\* AM/PM and the captured marker (undefined when the pattern does not match)
splitPeriod(s) ==
    LET p == PeriodAt(s)
    IN  IF p = 0 THEN [timePart |-> s, period |-> "undefined"]
        ELSE [timePart |-> SubSeq(s, 1, p - 1),
              period |-> IF s[p] = "A" THEN "AM" ELSE "PM"]

\* value of a string of decimal digits
RECURSIVE DigitsValue(_, _)
DigitsValue(s, acc) ==
    IF s = <<>> THEN acc ELSE DigitsValue(Tail(s), acc * 10 + DigitValue(Head(s)))

\* Number(s) for the strings the model holds: white space is trimmed, the
\* empty string is 0, decimal digits are their value, anything else is NaN
Number(s) ==
    LET t == trim(s)
    IN  IF t = <<>> THEN Num(0)
        ELSE IF IsAllDigits(t) THEN Num(DigitsValue(t, 0))
        ELSE NaN

\* timePart.split('.').map(Number), destructured as [hours, minutes]
hoursMinutes(timePart) ==
    LET parts == split(timePart, ".")
    IN  [hours |-> Number(parts[1]),
         minutes |-> IF Len(parts) >= 2 THEN Number(parts[2]) ELSE UndefinedNum]

\* (minutes || 0): undefined, NaN and 0 are falsy
OrZero(m) == IF m.kind = "number" THEN m.val ELSE 0

-----------------------------------------------------------------------------
(* Time Parser                                                             *)

MinutesPerDay == 24 * 60

\* mutant of timeToMinutes: the hour is not reduced modulo 12
timeToMinutes_NoModulo(timeStr) ==
    LET time == trim(split(timeStr, "-")[1])
        sp == splitPeriod(time)
        hm == hoursMinutes(sp.timePart)
    IN  IF hm.hours.kind # "number" THEN NaN
        ELSE Num(hm.hours.val * 60 + OrZero(hm.minutes)
                 + (IF sp.period = "PM" THEN 12 * 60 ELSE 0))

\* sort key of a time-range string: minutes since midnight of its start
timeToMinutes(timeStr) ==
    LET time == trim(split(timeStr, "-")[1])
        sp == splitPeriod(time)
        hm == hoursMinutes(sp.timePart)
    IN  IF hm.hours.kind # "number" THEN NaN
        ELSE Num((hm.hours.val % 12) * 60 + OrZero(hm.minutes)
                 + (IF sp.period = "PM" THEN 12 * 60 ELSE 0))

\* the inner parseTime(time, date): the instant at the parsed hour and minute
\* of the calendar day `day` (a day number since the epoch)
parseTime(time, day) ==
    LET sp == splitPeriod(trim(time))
        hm == hoursMinutes(sp.timePart)
        hours == hm.hours.val
        hour == IF sp.period = "PM" /\ hours # 12 THEN hours + 12
                ELSE IF sp.period = "AM" /\ hours = 12 THEN 0
                ELSE hours
    IN  IF hm.hours.kind # "number" THEN InvalidDate
        ELSE DateOf(day * MinutesPerDay + hour * 60 + OrZero(hm.minutes))

\* today.getDay() for the clock reading `today`: the epoch is a Sunday
getDay(today) == (today \div MinutesPerDay) % 7

\* parseTimeToDate(timeStr, dayOffset) when `new Date()` reads `today`.
\* threw: endTime is undefined (no '-' in timeStr) and time.trim() throws
parseTimeToDate(timeStr, dayOffset, today) ==
    LET parts == split(timeStr, "-")
        startOfWeek == (today \div MinutesPerDay) - getDay(today)
        eventDate == startOfWeek + dayOffset
    IN  IF Len(parts) < 2
        THEN [threw |-> TRUE, start |-> InvalidDate, end |-> InvalidDate]
        ELSE [threw |-> FALSE,
              start |-> parseTime(parts[1], eventDate),
              end |-> parseTime(parts[2], eventDate)]

\* formatICSDate(date) in a system whose local time is UTC + tz minutes: the
\* compact UTC rendering is determined by the UTC instant
formatICSDate(date, tz) == [utc |-> date.t - tz]

-----------------------------------------------------------------------------
(* The datasets                                                            *)

\* element i of a JavaScript array (indices start at 0)
At(arr, i) == arr[i + 1]

\* dayNames of generateICS: the keys of a TimeSlot's day properties
dayNames == <<"sunday", "monday", "tuesday", "wednesday", "thursday", "friday",
              "saturday">>

DayKeys == Range(dayNames)

\* days of classes.json and dining.json
DataDays == <<"Sunday", "Monday", "Tuesday", "Wednesday", "Thursday", "Friday",
              "Saturday">>

\* days[dayIndex].toLowerCase()
toLowerCaseDay(name) ==
    dayNames[CHOOSE i \in DOMAIN DataDays : DataDays[i] = name]

\* time-range strings, "H.MM[AM|PM]-H.MM[AM|PM]"
T_0900_1020 == <<"9", ".", "0", "0", "A", "M", "-", "1", "0", ".", "2", "0", "A", "M">>

T_1300_1400 == <<"1", ".", "0", "0", "P", "M", "-", "2", ".", "0", "0", "P", "M">>

T_1230_1330 == <<"1", "2", ".", "3", "0", "P", "M", "-", "1", ".", "3", "0", "P", "M">>

\* classes.json: slots, subjects, faculties, rooms, sections
ClassSlots == <<T_0900_1020, T_1300_1400>>

Subjects == <<"CSE110", "MAT120">>

Faculties == <<"Dr. X", "Dr. Y">>

Rooms == <<"301", "302">>

Sections == << <<"S", "0", "1">>, <<"S", "0", "2">> >>

\* dining.json: timeRanges, meals
DiningTimeRanges == <<T_1230_1330, T_1300_1400>>

Meals == <<"Breakfast", "Lunch">>

\* bound of the dataset family: assignments plus dining slot references
MaxItems == 2

\* the day sets a pattern may carry (day indices into `days`)
DaySets == {{}, {0}, {0, 1}}

\* one class assignment: indices into sections, subjects, faculties, rooms, slots
Assignments ==
    {[section |-> s, subject |-> c, faculty |-> c, room |-> c, slot |-> t] :
        s \in 0..(Len(Sections) - 1), c \in 0..(Len(Subjects) - 1),
        t \in 0..(Len(ClassSlots) - 1)}

\* class patterns with exactly n assignments
ClassPatternsOfSize(n) ==
    {[days |-> d, assignments |-> a] : d \in DaySets, a \in [1..n -> Assignments]}

\* lists of at most k class patterns holding exactly n assignments in all
RECURSIVE ClassPatternLists(_, _)
ClassPatternLists(k, n) ==
    IF n = 0 THEN {<<>>}
    ELSE IF k = 0 THEN {}
    ELSE UNION {{<<p>> \o rest : p \in ClassPatternsOfSize(a),
                                 rest \in ClassPatternLists(k - 1, n - a)} :
                a \in 1..n}

\* dining patterns with exactly n slot references
DiningPatternsOfSize(n) ==
    {[days |-> d, slots |-> s] :
        d \in DaySets, s \in [1..n -> 0..(Len(DiningTimeRanges) - 1)]}

\* lists of at most k dining patterns holding exactly n slot references in all
RECURSIVE DiningPatternLists(_, _)
DiningPatternLists(k, n) ==
    IF n = 0 THEN {<<>>}
    ELSE IF k = 0 THEN {}
    ELSE UNION {{<<p>> \o rest : p \in DiningPatternsOfSize(a),
                                 rest \in DiningPatternLists(k - 1, n - a)} :
                a \in 1..n}

ClassesDataOf(patterns) ==
    [days |-> DataDays, slots |-> ClassSlots, subjects |-> Subjects,
     faculties |-> Faculties, rooms |-> Rooms, sections |-> Sections,
     patterns |-> patterns]

DiningDataOf(patterns) ==
    [days |-> DataDays, timeRanges |-> DiningTimeRanges, meals |-> Meals,
     patterns |-> patterns]

\* the datasets with at most `items` assignments and slot references in all
Datasets(items) ==
    UNION {{[classes |-> ClassesDataOf(c), dining |-> DiningDataOf(d)] :
                c \in ClassPatternLists(a, a),
                d \in DiningPatternLists(b, b)} :
           <<a, b>> \in {x \in (0..items) \X (0..items) : x[1] + x[2] <= items}}

-----------------------------------------------------------------------------
(* Schedule Resolver                                                       *)

\* a TimeSlot without any day property set
NewSlot(time, type) ==
    [time |-> time, type |-> type, cells |-> [k \in DayKeys |-> Undefined]]

\* slots.find(slot => slot.time === time): its position, 0 when absent
FindSlot(slots, time) ==
    LET hits == {i \in DOMAIN slots : slots[i].time = time}
    IN  IF hits = {} THEN 0 ELSE CHOOSE i \in hits : \A j \in hits : i <= j

\* mutant of SetDays: an occupied cell is kept (first write wins)
SetDays_KeepFirst(slot, days, patternDays, info) ==
    [slot EXCEPT !.cells =
        [k \in DayKeys |->
            IF @[k] = Undefined /\ \E d \in patternDays : toLowerCaseDay(At(days, d)) = k
            THEN info ELSE @[k]]]

\* pattern.days.forEach(dayIndex => existingSlot[days[dayIndex].toLowerCase()] = info)
SetDays(slot, days, patternDays, info) ==
    [slot EXCEPT !.cells =
        [k \in DayKeys |->
            IF \E d \in patternDays : toLowerCaseDay(At(days, d)) = k
            THEN info ELSE @[k]]]

\* mutant of PlaceInfo: a new slot is pushed without looking for an existing one
PlaceInfo_AlwaysPush(slots, time, type, days, patternDays, info) ==
    LET slots1 == Append(slots, NewSlot(time, type))
    IN  [slots1 EXCEPT ![Len(slots1)] = SetDays(@, days, patternDays, info)]

\* find the slot keyed by `time` or push a new one, then set the pattern's days
PlaceInfo(slots, time, type, days, patternDays, info) ==
    LET found == FindSlot(slots, time)
        slots1 == IF found = 0 THEN Append(slots, NewSlot(time, type)) ELSE slots
        at == IF found = 0 THEN Len(slots1) ELSE found
    IN  [slots1 EXCEPT ![at] = SetDays(@, days, patternDays, info)]

\* mutant of PlaceAssignment: assignments of every section are placed
PlaceAssignment_AnySection(classSlots, pattern, assignment, sectionIndex) ==
    LET classInfo ==
            [subject |-> At(classesData.subjects, assignment.subject),
             faculty |-> At(classesData.faculties, assignment.faculty),
             room |-> At(classesData.rooms, assignment.room),
             section |-> At(classesData.sections, assignment.section)]
    IN  PlaceInfo(classSlots, At(classesData.slots, assignment.slot), "class",
                  classesData.days, pattern.days, classInfo)

\* the body of pattern.assignments.forEach for one assignment
PlaceAssignment(classSlots, pattern, assignment, sectionIndex) ==
    IF assignment.section = sectionIndex
    THEN LET classInfo ==
                 [subject |-> At(classesData.subjects, assignment.subject),
                  faculty |-> At(classesData.faculties, assignment.faculty),
                  room |-> At(classesData.rooms, assignment.room),
                  section |-> At(classesData.sections, assignment.section)]
         IN  PlaceInfo(classSlots, At(classesData.slots, assignment.slot), "class",
                       classesData.days, pattern.days, classInfo)
    ELSE classSlots

RECURSIVE PlaceAssignments(_, _, _, _)
PlaceAssignments(classSlots, pattern, i, sectionIndex) ==
    IF i > Len(pattern.assignments) THEN classSlots
    ELSE PlaceAssignments(
             PlaceAssignment(classSlots, pattern, pattern.assignments[i], sectionIndex),
             pattern, i + 1, sectionIndex)

RECURSIVE PlaceClassPatterns(_, _, _)
PlaceClassPatterns(classSlots, i, sectionIndex) ==
    IF i > Len(classesData.patterns) THEN classSlots
    ELSE PlaceClassPatterns(
             PlaceAssignments(classSlots, classesData.patterns[i], 1, sectionIndex),
             i + 1, sectionIndex)

getClassSchedule(sectionIndex) == PlaceClassPatterns(<<>>, 1, sectionIndex)

\* pattern.slots.indexOf(slotIndex), as a JavaScript index
indexOf(arr, x) == (CHOOSE i \in DOMAIN arr : arr[i] = x /\ \A j \in 1..(i - 1) : arr[j] # x) - 1

\* diningData.meals[mealIndex] || diningData.meals[0]
MealName(mealIndex) ==
    IF mealIndex < Len(diningData.meals) /\ At(diningData.meals, mealIndex) # ""
    THEN At(diningData.meals, mealIndex)
    ELSE At(diningData.meals, 0)

\* the body of pattern.slots.forEach for one slot index
PlaceMeal(diningSlots, pattern, slotIndex) ==
    LET timeRange == At(diningData.timeRanges, slotIndex)
        mealIndex == indexOf(pattern.slots, slotIndex)
        mealInfo == [meal |-> MealName(mealIndex), timeRange |-> timeRange]
    IN  PlaceInfo(diningSlots, timeRange, "meal", diningData.days, pattern.days, mealInfo)

RECURSIVE PlaceMeals(_, _, _)
PlaceMeals(diningSlots, pattern, i) ==
    IF i > Len(pattern.slots) THEN diningSlots
    ELSE PlaceMeals(PlaceMeal(diningSlots, pattern, pattern.slots[i]), pattern, i + 1)

RECURSIVE PlaceDiningPatterns(_, _)
PlaceDiningPatterns(diningSlots, i) ==
    IF i > Len(diningData.patterns) THEN diningSlots
    ELSE PlaceDiningPatterns(PlaceMeals(diningSlots, diningData.patterns[i], 1), i + 1)

getDiningSchedule == PlaceDiningPatterns(<<>>, 1)

\* mutant of Compare: the hour of the start is compared as written, without
\* the 12-hour clock (no modulo 12, no PM offset)
Compare_HourAsWritten(a, b) ==
    LET x == hoursMinutes(splitPeriod(trim(split(a.time, "-")[1])).timePart)
        y == hoursMinutes(splitPeriod(trim(split(b.time, "-")[1])).timePart)
    IN  (x.hours.val * 60 + OrZero(x.minutes)) - (y.hours.val * 60 + OrZero(y.minutes))

\* the comparator (a, b) => timeToMinutes(a.time) - timeToMinutes(b.time);
\* sort treats a NaN result as +0
Compare(a, b) ==
    LET x == timeToMinutes(a.time)
        y == timeToMinutes(b.time)
    IN  IF x.kind = "number" /\ y.kind = "number" THEN x.val - y.val ELSE 0

\* mutant of InsertSorted: x goes before the elements that compare equal to it
RECURSIVE InsertSorted_BeforeEquals(_, _)
InsertSorted_BeforeEquals(sorted, x) ==
    IF sorted = <<>> THEN <<x>>
    ELSE IF Compare(sorted[Len(sorted)], x) < 0 THEN Append(sorted, x)
    ELSE Append(InsertSorted_BeforeEquals(SubSeq(sorted, 1, Len(sorted) - 1), x),
                sorted[Len(sorted)])

\* Array.prototype.sort is stable: x goes after every element that does not
\* compare greater than it
RECURSIVE InsertSorted(_, _)
InsertSorted(sorted, x) ==
    IF sorted = <<>> THEN <<x>>
    ELSE IF Compare(sorted[Len(sorted)], x) <= 0 THEN Append(sorted, x)
    ELSE Append(InsertSorted(SubSeq(sorted, 1, Len(sorted) - 1), x), sorted[Len(sorted)])

RECURSIVE SortFrom(_, _, _)
SortFrom(arr, i, sorted) ==
    IF i > Len(arr) THEN sorted ELSE SortFrom(arr, i + 1, InsertSorted(sorted, arr[i]))

sort(arr) == SortFrom(arr, 1, <<>>)

\* mutant of getCombinedSchedule: the rows are added to the rows already held
\* in the schedule state instead of to fresh arrays
getCombinedSchedule_OntoStoredRows(sectionIndex) ==
    sort(schedule \o getClassSchedule(sectionIndex) \o getDiningSchedule)

getCombinedSchedule(sectionIndex) ==
    sort(getClassSchedule(sectionIndex) \o getDiningSchedule)

\* mutant of normalizeSection: the digits are not padded to two places
normalizeSection_NoPad(section) ==
    LET trimmed == trim(section)
    IN  IF IsAllDigits(trimmed) THEN <<"S">> \o trimmed ELSE trimmed

\* the identifier as loadScheduleForSection matches it against sections
normalizeSection(section) ==
    LET trimmed == trim(section)
    IN  IF IsAllDigits(trimmed) THEN <<"S">> \o padStart(trimmed, 2) ELSE trimmed

\* classesData.sections.findIndex(case-insensitive match), -1 when absent
findSectionIndex(normalizedSection) ==
    LET hits == {i \in DOMAIN classesData.sections :
                    toLowerCase(classesData.sections[i]) = toLowerCase(normalizedSection)}
    IN  IF hits = {} THEN -1 ELSE (CHOOSE i \in hits : \A j \in hits : i <= j) - 1

\* mutant of loadScheduleForSection: a miss stores an empty grid
loadScheduleForSection_ClearOnMiss(section) ==
    LET sectionIndex == findSectionIndex(normalizeSection(section))
    IN  IF sectionIndex = -1
        THEN [success |-> FALSE, schedule |-> <<>>]
        ELSE [success |-> TRUE, schedule |-> getCombinedSchedule(sectionIndex)]

\* loadScheduleForSection(section): its return value and the value of the
\* schedule state afterwards (setSchedule runs only on a match)
loadScheduleForSection(section) ==
    LET sectionIndex == findSectionIndex(normalizeSection(section))
    IN  IF sectionIndex = -1
        THEN [success |-> FALSE, schedule |-> schedule]
        ELSE [success |-> TRUE, schedule |-> getCombinedSchedule(sectionIndex)]

-----------------------------------------------------------------------------
(* Calendar Serializer                                                     *)

\* new Date('2024-09-06T23:59:59Z') as a UTC instant: day 12 after the epoch
\* day, 23:59
SemesterEndUtc == 18719

\* COUNT of the calendar-API variant's recurrence rule
SemesterWeeks == 16

\* slot.time.replace(/[^a-zA-Z0-9]/g, '')
sanitize(time) == SelectSeq(time, IsAlnum)

\* the clock read while event number k of a run is built: the run starts at
\* `now`; when tickAfter > 0 the clock advances by one unit once tickAfter
\* events have been built
ReadClock(now, tickAfter, k) == IF tickAfter > 0 /\ k > tickAfter THEN now + 1 ELSE now

\* the template string `${dayIndex}-${sanitized time}-${Date.now()}@rs-routine.local`
MakeUid(dayIndex, time, stamp) ==
    [dayIndex |-> dayIndex, time |-> sanitize(time), stamp |-> stamp]

IsClass(item) == "subject" \in DOMAIN item

eventTitle(item) ==
    IF IsClass(item) THEN [title |-> item.subject, suffix |-> " - Class"]
    ELSE [title |-> item.meal, suffix |-> ""]

eventDescription(item) ==
    IF IsClass(item)
    THEN [kind |-> "class", instructor |-> item.faculty, about |-> item.section]
    ELSE [kind |-> "meal", instructor |-> "", about |-> item.timeRange]

eventLocation(item, hall) ==
    IF IsClass(item) THEN [prefix |-> "Room ", place |-> item.room]
    ELSE [prefix |-> "", place |-> hall]

\* mutant of rruleUntil: the end date is read as local time (no 'Z')
rruleUntil_LocalEndDate(tz) ==
    [freq |-> "WEEKLY", bound |-> "UNTIL",
     value |-> formatICSDate(DateOf(SemesterEndUtc), tz).utc]

\* `FREQ=WEEKLY;UNTIL=${formatICSDate(endDate)}`
rruleUntil(tz) ==
    [freq |-> "WEEKLY", bound |-> "UNTIL",
     value |-> formatICSDate(DateOf(SemesterEndUtc + tz), tz).utc]

\* 'RRULE:FREQ=WEEKLY;COUNT=16'
rruleCount == [freq |-> "WEEKLY", bound |-> "COUNT", value |-> SemesterWeeks]

\* mutant of icsEvent: the description records the clock reading
icsEvent_StampedDescription(slot, dayIndex, item, today, stamp, tz) ==
    LET se == parseTimeToDate(slot.time, dayIndex, today)
    IN  IF se.threw \/ ~se.start.valid \/ ~se.end.valid
        THEN [threw |-> TRUE]
        ELSE [threw |-> FALSE,
              uid |-> MakeUid(dayIndex, slot.time, stamp),
              summary |-> eventTitle(item),
              description |-> [kind |-> "stamped", instructor |-> "",
                               about |-> [text |-> stamp]],
              location |-> eventLocation(item, "Tripty"),
              dtstart |-> formatICSDate(se.start, tz),
              dtend |-> formatICSDate(se.end, tz),
              rrule |-> rruleUntil(tz)]

\* the object pushed to `events` for one occupied cell, or the exception
icsEvent(slot, dayIndex, item, today, stamp, tz) ==
    LET se == parseTimeToDate(slot.time, dayIndex, today)
    IN  IF se.threw \/ ~se.start.valid \/ ~se.end.valid
        THEN [threw |-> TRUE]
        ELSE [threw |-> FALSE,
              uid |-> MakeUid(dayIndex, slot.time, stamp),
              summary |-> eventTitle(item),
              description |-> eventDescription(item),
              location |-> eventLocation(item, "Tripty"),
              dtstart |-> formatICSDate(se.start, tz),
              dtend |-> formatICSDate(se.end, tz),
              rrule |-> rruleUntil(tz)]

\* the loops over schedule and dayNames, from slot i and day dayIndex on
RECURSIVE icsEvents(_, _, _, _, _, _)
icsEvents(i, dayIndex, events, now, tickAfter, tz) ==
    IF i > Len(schedule) THEN events
    ELSE IF dayIndex >= Len(dayNames) THEN icsEvents(i + 1, 0, events, now, tickAfter, tz)
    ELSE LET item == schedule[i].cells[At(dayNames, dayIndex)]
             clock == ReadClock(now, tickAfter, Len(events) + 1)
         IN  IF item = Undefined
             THEN icsEvents(i, dayIndex + 1, events, now, tickAfter, tz)
             ELSE icsEvents(i, dayIndex + 1,
                            Append(events, icsEvent(schedule[i], dayIndex, item,
                                                    clock, clock, tz)),
                            now, tickAfter, tz)

Line(name, value) == [name |-> name, value |-> value]

Text(t) == [text |-> t]

\* mutant of eventBlock: the block is not closed by END:VEVENT
eventBlock_Unclosed(event, now, tz) ==
    << Line("BEGIN", Text("VEVENT")),
       Line("UID", event.uid),
       Line("DTSTART", event.dtstart),
       Line("DTEND", event.dtend),
       Line("RRULE", event.rrule),
       Line("SUMMARY", event.summary),
       Line("DESCRIPTION", event.description),
       Line("LOCATION", event.location),
       Line("DTSTAMP", formatICSDate(DateOf(now), tz)),
       Line("STATUS", Text("CONFIRMED")),
       Line("TRANSP", Text("OPAQUE")) >>

\* the twelve lines pushed for one event
eventBlock(event, now, tz) ==
    << Line("BEGIN", Text("VEVENT")),
       Line("UID", event.uid),
       Line("DTSTART", event.dtstart),
       Line("DTEND", event.dtend),
       Line("RRULE", event.rrule),
       Line("SUMMARY", event.summary),
       Line("DESCRIPTION", event.description),
       Line("LOCATION", event.location),
       Line("DTSTAMP", formatICSDate(DateOf(now), tz)),
       Line("STATUS", Text("CONFIRMED")),
       Line("TRANSP", Text("OPAQUE")),
       Line("END", Text("VEVENT")) >>

RECURSIVE eventBlocks(_, _, _, _)
eventBlocks(events, i, now, tz) ==
    IF i > Len(events) THEN <<>>
    ELSE eventBlock(events[i], now, tz) \o eventBlocks(events, i + 1, now, tz)

\* mutant of generateICS: the day loop starts at Monday
generateICS_FromMonday(now, tickAfter, tz) ==
    LET events == icsEvents(1, 1, <<>>, now, tickAfter, tz)
    IN  [threw |-> FALSE,
         lines |->
             << Line("BEGIN", Text("VCALENDAR")),
                Line("VERSION", Text("2.0")),
                Line("PRODID", Text("-//RS 69 Routine//Schedule Export//EN")),
                Line("CALSCALE", Text("GREGORIAN")),
                Line("METHOD", Text("PUBLISH")) >>
             \o eventBlocks(events, 1, now, tz)
             \o << Line("END", Text("VCALENDAR")) >>]

\* generateICS(): the lines joined by CRLF, or the exception of a time string
\* that yields no valid Date (toISOString throws RangeError)
generateICS(now, tickAfter, tz) ==
    LET events == icsEvents(1, 0, <<>>, now, tickAfter, tz)
    IN  IF \E i \in DOMAIN events : events[i].threw
        THEN [threw |-> TRUE, lines |-> <<>>]
        ELSE [threw |-> FALSE,
              lines |->
                  << Line("BEGIN", Text("VCALENDAR")),
                     Line("VERSION", Text("2.0")),
                     Line("PRODID", Text("-//RS 69 Routine//Schedule Export//EN")),
                     Line("CALSCALE", Text("GREGORIAN")),
                     Line("METHOD", Text("PUBLISH")) >>
                  \o eventBlocks(events, 1, now, tz)
                  \o << Line("END", Text("VCALENDAR")) >>]

\* the event resource of the calendar-API variant for one occupied cell
googleEvent(slot, dayIndex, item, today) ==
    LET se == parseTimeToDate(slot.time, dayIndex, today)
    IN  IF se.threw \/ ~se.start.valid \/ ~se.end.valid
        THEN [threw |-> TRUE]
        ELSE [threw |-> FALSE,
              summary |-> eventTitle(item),
              description |-> eventDescription(item),
              location |-> eventLocation(item, "Dining Hall"),
              start |-> se.start,
              end |-> se.end,
              recurrence |-> <<rruleCount>>]

\* the loops of exportToGoogleCalendar over schedule and dayNames
RECURSIVE googleEvents(_, _, _, _, _)
googleEvents(i, dayIndex, events, now, tickAfter) ==
    IF i > Len(schedule) THEN events
    ELSE IF dayIndex >= Len(dayNames) THEN googleEvents(i + 1, 0, events, now, tickAfter)
    ELSE LET item == schedule[i].cells[At(dayNames, dayIndex)]
             clock == ReadClock(now, tickAfter, Len(events) + 1)
         IN  IF item = Undefined
             THEN googleEvents(i, dayIndex + 1, events, now, tickAfter)
             ELSE googleEvents(i, dayIndex + 1,
                               Append(events, googleEvent(schedule[i], dayIndex, item, clock)),
                               now, tickAfter)

-----------------------------------------------------------------------------
(* Inputs                                                                  *)

\* section identifiers: bare digits, full codes, unknown sections
Id_1 == <<"1">>

Id_2 == <<"2">>

Id_S01 == <<"S", "0", "1">>

Id_s01 == <<"s", "0", "1">>

Id_99 == <<"9", "9">>

Id_S99 == <<"S", "9", "9">>

Empty == <<>>

Identifiers == {Id_1, Id_2, Id_S01, Id_s01, Id_99, Id_S99}

\* export moments [now, tz]: a clock reading and the offset of local time
\* from UTC in minutes.  Wednesday 2024-08-28 10:00 at UTC+6, and Saturday
\* 2024-09-14 23:59 at UTC, after the semester end
Moments ==
    {[now |-> 3 * MinutesPerDay + 10 * 60, tz |-> 6 * 60],
     [now |-> 20 * MinutesPerDay + 23 * 60 + 59, tz |-> 0]}

\* bound on the number of events after which the clock may advance in a run
MaxTickAfter == 1

-----------------------------------------------------------------------------
(* The engine: resolver and serializers applied to drawn datasets          *)

\* the grid each identifier resolves to, or <<>> when it names no section
ResolveAll ==
    [id \in Identifiers |->
        LET sectionIndex == findSectionIndex(normalizeSection(id))
        IN  IF sectionIndex = -1 THEN <<>> ELSE getCombinedSchedule(sectionIndex)]

InitEngine ==
    /\ \E d \in Datasets(MaxItems) :
          /\ classesData = d.classes
          /\ diningData = d.dining
    /\ variant \in {"ics", "google"}
    /\ currentView = "input"
    /\ selectedSection = Empty
    /\ isLoading = FALSE
    /\ schedule = <<>>
    /\ isExporting = FALSE
    /\ storage = Null
    /\ hash = Empty
    /\ hashEvents = 0
    /\ submitTimer = FALSE
    /\ renderPending = FALSE
    /\ mounted = TRUE
    /\ initialSection = Empty
    /\ alertMsg = ""
    /\ icsContent = <<>>
    /\ objectUrl = FALSE
    /\ linkInPage = FALSE
    /\ gcalEvents = <<>>
    /\ lastLoaded = Null
    /\ freshGrid = <<>>
    /\ submitted = Null
    /\ eventCauses = <<>>
    /\ handled = "none"
    /\ selfEvents = 0
    /\ lastTrigger = "startup"

\* the section lookup of the variant: loadScheduleForSection normalizes the
\* identifier, the calendar-API variant's handleSectionSubmit does not
Lookup(section) ==
    IF variant = "ics" THEN loadScheduleForSection(section)
    ELSE LET sectionIndex == findSectionIndex(section)
         IN  IF sectionIndex = -1
             THEN [success |-> FALSE, schedule |-> schedule]
             ELSE [success |-> TRUE, schedule |-> getCombinedSchedule(sectionIndex)]

\* resolve(dataset, sectionIdentifier), any number of times before an export
Resolve(section) ==
    LET r == Lookup(section)
    IN  /\ icsContent = <<>> /\ gcalEvents = <<>>
        /\ schedule' = r.schedule
        /\ lastLoaded' = IF r.success THEN section ELSE lastLoaded
        /\ UNCHANGED << classesData, diningData, currentView, selectedSection,
                        isLoading, isExporting, storage, hash, hashEvents,
                        submitTimer, renderPending, mounted, initialSection,
                        alertMsg, icsContent, objectUrl, linkInPage, variant,
                        gcalEvents, freshGrid, submitted,
                        eventCauses, handled, selfEvents, lastTrigger >>

\* serialize(weeklySlots): generateICS at an export moment
Serialize(m, tickAfter) ==
    LET doc == generateICS(m.now, tickAfter, m.tz)
    IN  /\ variant = "ics"
        /\ lastLoaded # Null
        /\ ~doc.threw
        /\ icsContent' = doc.lines
        /\ UNCHANGED << classesData, diningData, currentView, selectedSection,
                        isLoading, schedule, isExporting, storage, hash,
                        hashEvents, submitTimer, renderPending, mounted,
                        initialSection, alertMsg, objectUrl, linkInPage, variant,
                        gcalEvents, lastLoaded, freshGrid, submitted,
                        eventCauses, handled, selfEvents, lastTrigger >>

\* the event list exportToGoogleCalendar builds and submits as one batch
BuildGoogleEvents(m, tickAfter) ==
    LET events == googleEvents(1, 0, <<>>, m.now, tickAfter)
    IN  /\ variant = "google"
        /\ lastLoaded # Null
        /\ \A i \in DOMAIN events : ~events[i].threw
        /\ gcalEvents' = events
        /\ UNCHANGED << classesData, diningData, currentView, selectedSection,
                        isLoading, schedule, isExporting, storage, hash,
                        hashEvents, submitTimer, renderPending, mounted,
                        initialSection, alertMsg, icsContent, objectUrl,
                        linkInPage, variant, lastLoaded, freshGrid, submitted,
                        eventCauses, handled, selfEvents, lastTrigger >>

NextEngine ==
    \/ \E section \in Identifiers : Resolve(section)
    \/ \E m \in Moments, tickAfter \in 0..MaxTickAfter : Serialize(m, tickAfter)
    \/ \E m \in Moments, tickAfter \in 0..MaxTickAfter : BuildGoogleEvents(m, tickAfter)

SpecEngine == InitEngine /\ [][NextEngine]_vars

-----------------------------------------------------------------------------
(* Properties of the resolved grid                                         *)

\* sort key of row i of the stored grid
StartMinute(i) == timeToMinutes(schedule[i].time).val

\* index of the section the stored grid was resolved for
LoadedIndex ==
    IF variant = "ics" THEN findSectionIndex(normalizeSection(lastLoaded))
    ELSE findSectionIndex(lastLoaded)

\* the occupied cells <<row, day index>> of the stored grid
OccupiedCells ==
    {c \in (DOMAIN schedule) \X (0..(Len(dayNames) - 1)) :
        schedule[c[1]].cells[At(dayNames, c[2])] # Undefined}

\* C1: in the grid returned by getCombinedSchedule, a row whose start minute
\* is smaller than another row's appears before it, class and meal rows alike.
C1_SortedByStartMinute ==
    \A i, j \in DOMAIN schedule : StartMinute(i) < StartMinute(j) => i < j

\* C1 witness: a meal row was moved in front of a class row that starts
\* later, although class rows come first in the concatenation.
C1_Witness ==
    \E i, j \in DOMAIN schedule :
        /\ i < j
        /\ schedule[i].type = "meal" /\ schedule[j].type = "class"
        /\ StartMinute(i) < StartMinute(j)

\* C2: no two rows of a resolved grid have the same time string.
C2_RowsUniqueByTime ==
    \A i, j \in DOMAIN schedule : i # j => schedule[i].time # schedule[j].time

\* the positions <<pattern, assignment>> of the assignments of the resolved section
MatchingAssignments ==
    {pa \in UNION {{<<p, a>> : a \in DOMAIN classesData.patterns[p].assignments} :
                      p \in DOMAIN classesData.patterns} :
        classesData.patterns[pa[1]].assignments[pa[2]].section = LoadedIndex}

AssignmentAt(pa) == classesData.patterns[pa[1]].assignments[pa[2]]

\* the occupant an assignment stands for
OccupantOf(a) ==
    [subject |-> At(classesData.subjects, a.subject),
     faculty |-> At(classesData.faculties, a.faculty),
     room |-> At(classesData.rooms, a.room),
     section |-> At(classesData.sections, a.section)]

\* some class row keyed by the assignment's slot time holds `info` on day d
CellHolds(a, d, info) ==
    \E i \in DOMAIN schedule :
        /\ schedule[i].type = "class"
        /\ schedule[i].time = At(classesData.slots, a.slot)
        /\ schedule[i].cells[toLowerCaseDay(At(classesData.days, d))] = info

\* pb is processed after pa: a later pattern, or later in the same pattern
ProcessedAfter(pb, pa) == pb[1] > pa[1] \/ (pb[1] = pa[1] /\ pb[2] > pa[2])

\* a matching assignment processed after pa targets the cell (slot time, d) too
Overwritten(pa, d) ==
    \E pb \in MatchingAssignments :
        /\ ProcessedAfter(pb, pa)
        /\ At(classesData.slots, AssignmentAt(pb).slot)
               = At(classesData.slots, AssignmentAt(pa).slot)
        /\ d \in classesData.patterns[pb[1]].days

\* C3 as stated: every assignment of the resolved section has its own
\* occupant in the cell (slot time, day) for each day of its pattern.
C3_EveryAssignmentPresent ==
    lastLoaded # Null =>
        \A pa \in MatchingAssignments : \A d \in classesData.patterns[pa[1]].days :
            CellHolds(AssignmentAt(pa), d, OccupantOf(AssignmentAt(pa)))

\* C3 amended: every assignment of the resolved section has its own occupant
\* in the cell (slot time, day) for each day of its pattern, unless an
\* assignment of that section processed later targets the same cell.
C3_LastAssignmentPresent ==
    lastLoaded # Null =>
        \A pa \in MatchingAssignments : \A d \in classesData.patterns[pa[1]].days :
            ~Overwritten(pa, d) =>
                CellHolds(AssignmentAt(pa), d, OccupantOf(AssignmentAt(pa)))

\* C3 witness: a grid was resolved in which one assignment of the section is
\* overwritten on a day and the one that overwrote it is in the cell.
C3_Witness ==
    /\ lastLoaded # Null
    /\ \E pa, pb \in MatchingAssignments :
          \E d \in classesData.patterns[pa[1]].days :
              /\ ProcessedAfter(pb, pa)
              /\ d \in classesData.patterns[pb[1]].days
              /\ OccupantOf(AssignmentAt(pa)) # OccupantOf(AssignmentAt(pb))
              /\ ~Overwritten(pb, d)
              /\ Overwritten(pa, d)
              /\ CellHolds(AssignmentAt(pb), d, OccupantOf(AssignmentAt(pb)))

\* C7: every row of a resolved grid has at least one occupied day.
C7_NoEmptyRow ==
    \A i \in DOMAIN schedule : \E k \in DayKeys : schedule[i].cells[k] # Undefined

-----------------------------------------------------------------------------
(* Properties of the lookup and of the exports                             *)

\* the full section code of a bare-digit identifier: 'S', then the digits
\* with a leading zero when there is only one
FullCode(id) == IF Len(id) = 1 THEN <<"S", "0", id[1]>> ELSE <<"S">> \o id

\* C5: loadScheduleForSection resolves a bare-digit identifier as it resolves
\* the full code 'S' + two-digit number, in upper or lower case: the three
\* succeed or fail together and load the same grid.
C5_BareDigitsAsFullCode ==
    variant = "ics" =>
        /\ \A id \in {x \in Identifiers : IsAllDigits(x)} :
              LET bare == loadScheduleForSection(id)
                  full == loadScheduleForSection(FullCode(id))
                  lower == loadScheduleForSection(toLowerCase(FullCode(id)))
              IN  /\ bare.success = full.success /\ bare.success = lower.success
                  /\ bare.schedule = full.schedule /\ bare.schedule = lower.schedule
        /\ loadScheduleForSection(Id_1).success
        /\ lastLoaded \in {Id_1, Id_S01, Id_s01} =>
              schedule = loadScheduleForSection(Id_S01).schedule

\* C5 witness: the identifier "1" was loaded and produced a non-empty grid.
C5_Witness == variant = "ics" /\ lastLoaded = Id_1 /\ schedule # <<>>

\* the lines of the last document with a given property name
LinesNamed(name) == SelectSeq(icsContent, LAMBDA l : l.name = name)

\* the BEGIN:VEVENT lines of the last document
BeginEventLines ==
    SelectSeq(icsContent, LAMBDA l : l.name = "BEGIN" /\ l.value = Text("VEVENT"))

\* position of an occupied cell in row order, then Sunday..Saturday order
CellRank(c) ==
    1 + Cardinality({o \in OccupiedCells :
                        o[1] < c[1] \/ (o[1] = c[1] /\ o[2] < c[2])})

\* C4: generateICS emits exactly one event block per occupied (row, day)
\* cell, in grid row order and, within a row, in Sunday..Saturday order.
C4_OneEventPerOccupiedCell ==
    icsContent # <<>> =>
        /\ Len(BeginEventLines) = Cardinality(OccupiedCells)
        /\ Len(LinesNamed("UID")) = Cardinality(OccupiedCells)
        /\ Len(LinesNamed("SUMMARY")) = Cardinality(OccupiedCells)
        /\ \A c \in OccupiedCells :
              LET uid == LinesNamed("UID")[CellRank(c)].value
                  item == schedule[c[1]].cells[At(dayNames, c[2])]
              IN  /\ uid.dayIndex = c[2]
                  /\ uid.time = sanitize(schedule[c[1]].time)
                  /\ LinesNamed("SUMMARY")[CellRank(c)].value = eventTitle(item)

\* C4 witness: a document was generated from a grid with two rows and more
\* than two occupied cells.
C4_Witness ==
    /\ icsContent # <<>>
    /\ Len(schedule) >= 2
    /\ Cardinality(OccupiedCells) > 2
    /\ Len(BeginEventLines) = Cardinality(OccupiedCells)

\* the RRULE values of the last document
IcsRules == {LinesNamed("RRULE")[i].value : i \in DOMAIN LinesNamed("RRULE")}

\* the recurrence rules of the last calendar-API batch
GoogleRules ==
    UNION {Range(gcalEvents[i].recurrence) : i \in DOMAIN gcalEvents}

\* C9 as stated: every event of either variant's export recurs weekly until
\* one fixed date, never for a number of occurrences.
C9_UntilDateInBothVariants ==
    \A r \in IcsRules \cup GoogleRules :
        r.freq = "WEEKLY" /\ r.bound = "UNTIL" /\ r.value = SemesterEndUtc

\* C9 amended: every event of a document generateICS produces recurs weekly
\* until 2024-09-06T23:59:59Z, whatever the export moment and time zone; every
\* event of the calendar-API variant's batch recurs weekly for 16 occurrences.
C9_UntilDateInIcsCountInGoogle ==
    /\ Len(LinesNamed("RRULE")) = Len(BeginEventLines)
    /\ \A r \in IcsRules :
          r.freq = "WEEKLY" /\ r.bound = "UNTIL" /\ r.value = SemesterEndUtc
    /\ \A i \in DOMAIN gcalEvents : Len(gcalEvents[i].recurrence) = 1
    /\ \A r \in GoogleRules :
          r.freq = "WEEKLY" /\ r.bound = "COUNT" /\ r.value = SemesterWeeks

\* C9 witness: a document with at least two events was generated at UTC+6.
C9_Witness ==
    /\ Len(LinesNamed("RRULE")) >= 2
    /\ \E m \in Moments :
          m.tz # 0 /\ LinesNamed("DTSTAMP")[1].value = formatICSDate(DateOf(m.now), m.tz)

\* C10: no two event blocks of one document carry the same UID.
C10_UidsDistinct ==
    \A i, j \in DOMAIN LinesNamed("UID") :
        i # j => LinesNamed("UID")[i].value # LinesNamed("UID")[j].value

-----------------------------------------------------------------------------
(* Properties of the generated document                                    *)

\* the property names of the lines of one event block, in order
EventBlockNames ==
    << "BEGIN", "UID", "DTSTART", "DTEND", "RRULE", "SUMMARY", "DESCRIPTION",
       "LOCATION", "DTSTAMP", "STATUS", "TRANSP", "END" >>

\* the five header lines of a document
HeaderLines ==
    << Line("BEGIN", Text("VCALENDAR")),
       Line("VERSION", Text("2.0")),
       Line("PRODID", Text("-//RS 69 Routine//Schedule Export//EN")),
       Line("CALSCALE", Text("GREGORIAN")),
       Line("METHOD", Text("PUBLISH")) >>

\* number of event blocks a document of that many lines holds
BlockCount == (Len(icsContent) - Len(HeaderLines) - 1) \div Len(EventBlockNames)

\* line n (1..12) of event block k (1..BlockCount) of the last document
BlockLine(k, n) == icsContent[Len(HeaderLines) + (k - 1) * Len(EventBlockNames) + n]

\* C11: a generated document is the five header lines, then for each occupied
\* cell one block of exactly twelve lines BEGIN:VEVENT, UID, DTSTART, DTEND,
\* RRULE, SUMMARY, DESCRIPTION, LOCATION, DTSTAMP, STATUS:CONFIRMED,
\* TRANSP:OPAQUE, END:VEVENT, then END:VCALENDAR; blocks are closed before the
\* next one opens, and an empty grid gives the header followed by the footer.
C11_DocumentStructure ==
    icsContent # <<>> =>
        /\ Len(icsContent)
               = Len(HeaderLines) + Len(EventBlockNames) * Cardinality(OccupiedCells) + 1
        /\ SubSeq(icsContent, 1, Len(HeaderLines)) = HeaderLines
        /\ icsContent[Len(icsContent)] = Line("END", Text("VCALENDAR"))
        /\ \A k \in 1..BlockCount :
              /\ \A n \in DOMAIN EventBlockNames :
                    BlockLine(k, n).name = EventBlockNames[n]
              /\ BlockLine(k, 1).value = Text("VEVENT")
              /\ BlockLine(k, 10).value = Text("CONFIRMED")
              /\ BlockLine(k, 11).value = Text("OPAQUE")
              /\ BlockLine(k, 12).value = Text("VEVENT")
        /\ (schedule = <<>> =>
               icsContent = HeaderLines \o << Line("END", Text("VCALENDAR")) >>)

\* C11 witness: a document with two event blocks or more was generated.
C11_Witness ==
    /\ icsContent # <<>>
    /\ BlockCount >= 2
    /\ BlockLine(2, 1) = Line("BEGIN", Text("VEVENT"))
    /\ BlockLine(1, 12) = Line("END", Text("VEVENT"))

\* the export moment of the last document: the one whose reading of the clock
\* at the start of generateICS the DTSTAMP lines carry
ExportMoment ==
    CHOOSE m \in Moments : formatICSDate(DateOf(m.now), m.tz) = BlockLine(1, 9).value

\* local calendar day (days since the epoch Sunday) of a UTC rendering
LocalDay(stamp) == (stamp.utc + ExportMoment.tz) \div MinutesPerDay

\* the Sunday of the week that contains the export moment
ExportSunday ==
    (ExportMoment.now \div MinutesPerDay) - getDay(ExportMoment.now)

\* C12: every event of a document starts and ends on the calendar day that is
\* the Sunday of the week containing the export moment plus the day index of
\* its cell, also when the clock advances while the document is built.
C12_EventsInExportWeek ==
    \A k \in 1..BlockCount :
        /\ LocalDay(BlockLine(k, 3).value) = ExportSunday + BlockLine(k, 2).value.dayIndex
        /\ LocalDay(BlockLine(k, 4).value) = ExportSunday + BlockLine(k, 2).value.dayIndex

\* C13: in every document, at every export moment, each event starts no
\* later than the until-date of its recurrence rule.
C13_StartNotAfterUntil ==
    \A k \in 1..BlockCount : BlockLine(k, 3).value.utc <= BlockLine(k, 5).value.value

\* the properties whose values are computed from the clock or the time zone
ClockDependentNames == {"UID", "DTSTART", "DTEND", "DTSTAMP"}

\* C14 as stated: generateICS gives the same document for the stored grid at
\* any two moments.
C14_SameDocumentAtAnyTwoMoments ==
    lastLoaded # Null =>
        \A m1, m2 \in Moments : \A t1, t2 \in 0..MaxTickAfter :
            generateICS(m1.now, t1, m1.tz) = generateICS(m2.now, t2, m2.tz)

\* C14 amended: the document is determined by the grid, the clock readings
\* and the time zone.  The stored document is the one generateICS gives again
\* for the same grid, readings and zone, and two documents of the same grid
\* made at any two moments have the same lines in the same order except for
\* the values of UID, DTSTART, DTEND and DTSTAMP.
C14_SameDocumentUpToClock ==
    lastLoaded # Null =>
        LET documents ==
                {generateICS(m.now, t, m.tz).lines :
                    m \in Moments, t \in 0..MaxTickAfter}
        IN  /\ \A d1, d2 \in documents :
                  /\ Len(d1) = Len(d2)
                  /\ \A i \in DOMAIN d1 :
                        /\ d1[i].name = d2[i].name
                        /\ d1[i].name \notin ClockDependentNames => d1[i] = d2[i]
            /\ icsContent # <<>> => icsContent \in documents

\* C14 witness: a document with an event was generated, and generating it
\* again at another moment gives a different document.
C14_Witness ==
    /\ icsContent # <<>>
    /\ BlockCount >= 1
    /\ \E m \in Moments : generateICS(m.now, 0, m.tz).lines # icsContent

-----------------------------------------------------------------------------
(* The time parser applied to well-formed range strings                    *)

\* a start endpoint: hour 1..12, minute 0..59, period; `dotted` tells whether
\* the minute part is written ("9.05AM") or absent ("9AM", minute 0)
Endpoints ==
    {e \in [h : 1..12, m : 0..59, p : {"AM", "PM"}, dotted : BOOLEAN] :
        ~e.dotted => e.m = 0}

\* decimal digits of n < 100, without and with a leading zero
HourDigits(n) ==
    IF n < 10 THEN <<Digits[n + 1]>> ELSE <<Digits[(n \div 10) + 1], Digits[(n % 10) + 1]>>

MinuteDigits(n) == <<Digits[(n \div 10) + 1], Digits[(n % 10) + 1]>>

\* the endpoint as it is written in classes.json: "H.MM" or "H", then AM or PM
EndpointString(e) ==
    HourDigits(e.h)
    \o (IF e.dotted THEN <<".">> \o MinuteDigits(e.m) ELSE <<>>)
    \o (IF e.p = "AM" THEN <<"A", "M">> ELSE <<"P", "M">>)

\* the range string that starts at e and ends at 11.59PM
RangeString(e) ==
    EndpointString(e) \o <<"-">> \o <<"1", "1", ".", "5", "9", "P", "M">>

\* the start endpoint a range string of the family was written from
StartOf(timeStr) == CHOOSE e \in Endpoints : RangeString(e) = timeStr

\* classes.json with one slot, held by section S01 on Sunday; no dining data
InitTime ==
    /\ \E e \in Endpoints :
          classesData =
              [days |-> DataDays, slots |-> <<RangeString(e)>>, subjects |-> Subjects,
               faculties |-> Faculties, rooms |-> Rooms, sections |-> Sections,
               patterns |->
                   << [days |-> {0},
                       assignments |->
                           << [section |-> 0, subject |-> 0, faculty |-> 0,
                               room |-> 0, slot |-> 0] >>] >>]
    /\ diningData = DiningDataOf(<<>>)
    /\ variant = "ics"
    /\ currentView = "input"
    /\ selectedSection = Empty
    /\ isLoading = FALSE
    /\ schedule = <<>>
    /\ isExporting = FALSE
    /\ storage = Null
    /\ hash = Empty
    /\ hashEvents = 0
    /\ submitTimer = FALSE
    /\ renderPending = FALSE
    /\ mounted = TRUE
    /\ initialSection = Empty
    /\ alertMsg = ""
    /\ icsContent = <<>>
    /\ objectUrl = FALSE
    /\ linkInPage = FALSE
    /\ gcalEvents = <<>>
    /\ lastLoaded = Null
    /\ freshGrid = <<>>
    /\ submitted = Null
    /\ eventCauses = <<>>
    /\ handled = "none"
    /\ selfEvents = 0
    /\ lastTrigger = "startup"

\* the grid is resolved (its rows sorted by timeToMinutes), then exported
\* (its instants computed by parseTimeToDate)
NextTime ==
    \/ Resolve(Id_1)
    \/ \E m \in Moments : Serialize(m, 0)

SpecTime == InitTime /\ [][NextTime]_vars

\* C15: for a range string whose start has hour h in 1..12, minute m in 0..59
\* (0 when absent) and period AM or PM, timeToMinutes is (h mod 12) * 60 + m,
\* plus 720 for PM; it lies in 0..1439 and is the minute of the local day of
\* the start instant parseTimeToDate computes, on every day of the week and
\* in the exported DTSTART.
C15_StartMinuteOfDay ==
    \A i \in DOMAIN schedule :
        LET timeStr == schedule[i].time
            e == StartOf(timeStr)
            expected == (e.h % 12) * 60 + e.m + (IF e.p = "PM" THEN 720 ELSE 0)
        IN  /\ timeToMinutes(timeStr) = Num(expected)
            /\ expected \in 0..(MinutesPerDay - 1)
            /\ \A mom \in Moments : \A dayOffset \in 0..6 :
                  LET start == parseTimeToDate(timeStr, dayOffset, mom.now).start
                  IN  start.valid /\ start.t % MinutesPerDay = expected
            /\ \A k \in 1..BlockCount :
                  (BlockLine(k, 3).value.utc + ExportMoment.tz) % MinutesPerDay = expected

\* C15 witness: the row of "12.30AM-11.59PM" was resolved with sort key 30
\* and exported.
C15_Witness ==
    /\ icsContent # <<>>
    /\ BlockCount = 1
    /\ \E i \in DOMAIN schedule :
          /\ schedule[i].time = RangeString([h |-> 12, m |-> 30, p |-> "AM", dotted |-> TRUE])
          /\ timeToMinutes(schedule[i].time) = Num(30)

-----------------------------------------------------------------------------
(* The ICS variant's App component                                         *)

\* fragments the page may be opened with or navigated to
Fragments == {Empty, Id_1, Id_99, Id_S01}

\* what localStorage may hold when the page is opened
StoredSections == {Null, Id_1, Id_s01, Id_S99}

\* values onChange may deliver: digit strings and, as the not-found message
\* asks for ("a valid section like S01"), a section code with letters
TypedSections == {Empty, Id_1, Id_2, Id_99, Id_s01}

\* bound on the queue of hashchange events: the user acts on the page or
\* navigates only while fewer events than this wait to be dispatched
MaxHashEvents == 2

\* one character of String.prototype.toUpperCase
UpperChar(c) ==
    IF c \in Range(LowerLetters)
    THEN UpperLetters[CHOOSE i \in DOMAIN LowerLetters : LowerLetters[i] = c]
    ELSE c

toUpperCase(s) == [i \in DOMAIN s |-> UpperChar(s[i])]

\* mutant of sectionExists: the digits are not padded
sectionExists_NoPad(digits) == findSectionIndex(<<"S">> \o digits) # -1

\* classesData.sections.some(case-insensitive match with 'S' + padded digits)
sectionExists(digits) == findSectionIndex(<<"S">> \o padStart(digits, 2)) # -1

\* localStorage.getItem(STORAGE_KEY) || ''
storedOrEmpty(item) == IF item = Null THEN Empty ELSE item

\* getInitialSection() with fragment h and stored item: its return value and
\* the fragment afterwards (an all-digit fragment naming no section is cleared)
getInitialSection(h, item) ==
    IF h # Empty /\ IsAllDigits(h)
    THEN IF sectionExists(h)
         THEN [section |-> h, hash |-> h]
         ELSE [section |-> storedOrEmpty(item), hash |-> Empty]
    ELSE [section |-> storedOrEmpty(item), hash |-> h]

\* mutant of Queued: a fragment write fires hashchange also when it leaves
\* the fragment as it was
Queued_OnEveryWrite(events, old, new) == events + 1

\* hashchange events queued after the fragment goes from `old` to `new`
Queued(events, old, new) == IF old = new THEN events ELSE events + 1

\* the causes of the queued events after `cause` takes the fragment from
\* `old` to `new`
QueuedBy(causes, cause, old, new) ==
    IF Queued(0, old, new) = 1 THEN Append(causes, cause) ELSE causes

\* a sample timetable: section S01 has CSE110 on Sunday and Monday at 9.00AM
\* and MAT120 on Sunday at 1.00PM, section S02 has MAT120 on Sunday and Monday
\* at 9.00AM; lunch is served on Sunday and Monday at 12.30PM
SampleClassPatterns ==
    << [days |-> {0, 1},
        assignments |->
            << [section |-> 0, subject |-> 0, faculty |-> 0, room |-> 0, slot |-> 0],
               [section |-> 1, subject |-> 1, faculty |-> 1, room |-> 1, slot |-> 0] >>],
       [days |-> {0},
        assignments |->
            << [section |-> 0, subject |-> 1, faculty |-> 1, room |-> 1, slot |-> 1] >>] >>

SampleDiningPatterns == << [days |-> {0, 1}, slots |-> <<0>>] >>

\* the datasets the component is run on
AppDatasets ==
    {[classes |-> ClassesDataOf(SampleClassPatterns),
      dining |-> DiningDataOf(SampleDiningPatterns)]}

\* the state after the first render: getInitialSection and the useState calls
Init ==
    /\ \E d \in AppDatasets :
          /\ classesData = d.classes
          /\ diningData = d.dining
    /\ variant = "ics"
    /\ \E h \in Fragments, item \in StoredSections :
          LET first == getInitialSection(h, item)
          IN  /\ initialSection = first.section
              /\ currentView = IF first.section # Empty THEN "schedule" ELSE "input"
              /\ selectedSection = first.section
              /\ hash = first.hash
              /\ hashEvents = Queued(0, h, first.hash)
              /\ eventCauses = QueuedBy(<<>>, "startup", h, first.hash)
              /\ selfEvents = Queued(0, h, first.hash)
              /\ storage = item
    /\ isLoading = FALSE
    /\ schedule = <<>>
    /\ isExporting = FALSE
    /\ submitTimer = FALSE
    /\ renderPending = FALSE
    /\ mounted = FALSE
    /\ alertMsg = ""
    /\ icsContent = <<>>
    /\ objectUrl = FALSE
    /\ linkInPage = FALSE
    /\ gcalEvents = <<>>
    /\ lastLoaded = Null
    /\ freshGrid = ResolveAll
    /\ submitted = Null
    /\ handled = "none"
    /\ lastTrigger = "startup"

\* the handlers run once the component is mounted and its last render is done
Idle == mounted /\ ~renderPending

\* the user's next action on the page is taken
UserActs == Idle /\ hashEvents < MaxHashEvents

\* the initial-load effect
InitialLoadEffect ==
    /\ ~mounted
    /\ mounted' = TRUE
    /\ IF initialSection # Empty /\ currentView = "schedule"
       THEN LET r == loadScheduleForSection(initialSection)
            IN  IF ~r.success
                THEN \* setCurrentView('input'); setSelectedSection(''); clearSection()
                     /\ currentView' = "input"
                     /\ selectedSection' = Empty
                     /\ storage' = Null
                     /\ hash' = Empty
                     /\ hashEvents' = Queued(hashEvents, hash, Empty)
                     /\ eventCauses' = QueuedBy(eventCauses, "startup", hash, Empty)
                     /\ selfEvents' = Queued(selfEvents, hash, Empty)
                     /\ renderPending' = TRUE
                     /\ schedule' = r.schedule
                     /\ UNCHANGED lastLoaded
                ELSE /\ schedule' = r.schedule
                     /\ lastLoaded' = initialSection
                     /\ renderPending' = TRUE
                     \* saveSection(initialSection) when it came from the fragment
                     /\ storage' = IF hash # Empty /\ hash = initialSection
                                   THEN initialSection ELSE storage
                     /\ UNCHANGED << currentView, selectedSection, hash, hashEvents,
                                     eventCauses, selfEvents >>
       ELSE UNCHANGED << currentView, selectedSection, storage, hash, hashEvents,
                         schedule, lastLoaded, renderPending, eventCauses, selfEvents >>
    /\ UNCHANGED << classesData, diningData, isLoading, isExporting, submitTimer,
                    initialSection, alertMsg, icsContent, objectUrl, linkInPage,
                    variant, gcalEvents, freshGrid, submitted, handled, lastTrigger >>

\* the component body re-runs after a state update: getInitialSection() is
\* called again and clears an all-digit fragment that names no section
Render ==
    /\ mounted /\ renderPending
    /\ renderPending' = FALSE
    /\ LET again == getInitialSection(hash, storage)
       IN  /\ hash' = again.hash
           /\ hashEvents' = Queued(hashEvents, hash, again.hash)
           /\ eventCauses' = QueuedBy(eventCauses, "render", hash, again.hash)
           /\ selfEvents' = Queued(selfEvents, hash, again.hash)
    /\ UNCHANGED << classesData, diningData, currentView, selectedSection,
                    isLoading, schedule, isExporting, storage, submitTimer, mounted,
                    initialSection, alertMsg, icsContent, objectUrl, linkInPage,
                    variant, gcalEvents, lastLoaded, freshGrid, submitted,
                    handled, lastTrigger >>

\* onChange of the section input (disabled while loading)
TypeSection(value) ==
    /\ UserActs /\ currentView = "input" /\ ~isLoading
    /\ selectedSection' = toUpperCase(value)
    /\ selectedSection' # selectedSection
    /\ renderPending' = TRUE
    /\ submitted' = Null
    /\ lastTrigger' = "type"
    /\ UNCHANGED << classesData, diningData, currentView, isLoading, schedule,
                    isExporting, storage, hash, hashEvents, submitTimer, mounted,
                    initialSection, alertMsg, icsContent, objectUrl, linkInPage,
                    variant, gcalEvents, lastLoaded, freshGrid,
                    eventCauses, handled, selfEvents >>

\* handleSectionSubmit up to its await (the submit button is disabled while
\* the trimmed identifier is empty or a load is in progress)
handleSectionSubmit ==
    /\ UserActs /\ currentView = "input" /\ ~isLoading
    /\ trim(selectedSection) # Empty
    /\ LET r == loadScheduleForSection(selectedSection)
       IN  IF ~r.success
           THEN /\ alertMsg' = "Section not found! Please try a valid section like S01, S02, etc."
                /\ isLoading' = FALSE
                /\ schedule' = r.schedule
                /\ UNCHANGED << storage, hash, hashEvents, submitTimer, lastLoaded,
                                eventCauses >>
                /\ selfEvents' = 0
                /\ submitted' = Null
           ELSE /\ schedule' = r.schedule
                /\ lastLoaded' = selectedSection
                /\ isLoading' = TRUE
                \* saveSection(selectedSection.trim())
                /\ storage' = trim(selectedSection)
                /\ hash' = trim(selectedSection)
                /\ hashEvents' = Queued(hashEvents, hash, trim(selectedSection))
                /\ eventCauses' = QueuedBy(eventCauses, "submit", hash, trim(selectedSection))
                /\ selfEvents' = Queued(0, hash, trim(selectedSection))
                /\ submitTimer' = TRUE
                /\ submitted' = trim(selectedSection)
                /\ UNCHANGED alertMsg
    /\ renderPending' = TRUE
    /\ lastTrigger' = "submit"
    /\ UNCHANGED << classesData, diningData, currentView, selectedSection,
                    isExporting, mounted, initialSection, icsContent, objectUrl,
                    linkInPage, variant, gcalEvents, freshGrid, handled >>

\* handleSectionSubmit after the 800 ms timeout
SubmitTimerFires ==
    /\ mounted /\ ~renderPending /\ submitTimer
    /\ submitTimer' = FALSE
    /\ isLoading' = FALSE
    /\ currentView' = "schedule"
    /\ renderPending' = TRUE
    /\ UNCHANGED << classesData, diningData, selectedSection, schedule, isExporting,
                    storage, hash, hashEvents, mounted, initialSection, alertMsg,
                    icsContent, objectUrl, linkInPage, variant, gcalEvents,
                    lastLoaded, freshGrid, submitted,
                    eventCauses, handled, selfEvents, lastTrigger >>

\* mutant of BackClick: the cached identifier is kept
BackClick_KeepsCache ==
    /\ UserActs /\ currentView = "schedule"
    /\ currentView' = "input"
    /\ selectedSection' = Empty
    /\ hash' = Empty
    /\ hashEvents' = Queued(hashEvents, hash, Empty)
    /\ eventCauses' = QueuedBy(eventCauses, "back", hash, Empty)
    /\ selfEvents' = Queued(0, hash, Empty)
    /\ lastTrigger' = "back"
    /\ renderPending' = TRUE
    /\ submitted' = Null
    /\ UNCHANGED << classesData, diningData, isLoading, schedule, isExporting,
                    storage, submitTimer, mounted, initialSection, alertMsg,
                    icsContent, objectUrl, linkInPage, variant, gcalEvents,
                    lastLoaded, freshGrid, handled >>

\* onClick of the Back button of the schedule view
BackClick ==
    /\ UserActs /\ currentView = "schedule"
    /\ currentView' = "input"
    /\ selectedSection' = Empty
    \* clearSection()
    /\ storage' = Null
    /\ hash' = Empty
    /\ hashEvents' = Queued(hashEvents, hash, Empty)
    /\ eventCauses' = QueuedBy(eventCauses, "back", hash, Empty)
    /\ selfEvents' = Queued(0, hash, Empty)
    /\ lastTrigger' = "back"
    /\ renderPending' = TRUE
    /\ submitted' = Null
    /\ UNCHANGED << classesData, diningData, isLoading, schedule, isExporting,
                    submitTimer, mounted, initialSection, alertMsg, icsContent,
                    objectUrl, linkInPage, variant, gcalEvents, lastLoaded, freshGrid,
                    handled >>

\* the hashchange listener, for one queued event
handleHashChange ==
    /\ Idle /\ hashEvents > 0
    /\ IF hash # Empty /\ IsAllDigits(hash)
       THEN IF sectionExists(hash)
            THEN LET r == loadScheduleForSection(hash)
                 IN  /\ selectedSection' = hash
                     /\ schedule' = r.schedule
                     /\ lastLoaded' = IF r.success THEN hash ELSE lastLoaded
                     /\ currentView' = IF r.success THEN "schedule" ELSE currentView
                     /\ storage' = IF r.success THEN hash ELSE storage
                     /\ hash' = hash
                     /\ hashEvents' = hashEvents - 1
                     /\ eventCauses' = Tail(eventCauses)
                     /\ UNCHANGED selfEvents
            ELSE /\ currentView' = "input"
                 /\ selectedSection' = Empty
                 /\ storage' = Null
                 /\ hash' = Empty
                 /\ hashEvents' = Queued(hashEvents - 1, hash, Empty)
                 /\ eventCauses' = QueuedBy(Tail(eventCauses), "handler", hash, Empty)
                 /\ selfEvents' = Queued(selfEvents, hash, Empty)
                 /\ UNCHANGED << schedule, lastLoaded >>
       ELSE /\ currentView' = "input"
            /\ selectedSection' = Empty
            /\ storage' = Null
            /\ hashEvents' = hashEvents - 1
            /\ eventCauses' = Tail(eventCauses)
            /\ UNCHANGED << hash, schedule, lastLoaded, selfEvents >>
    /\ handled' = Head(eventCauses)
    /\ renderPending' = TRUE
    /\ UNCHANGED << classesData, diningData, isLoading, isExporting, submitTimer,
                    mounted, initialSection, alertMsg, icsContent, objectUrl,
                    linkInPage, variant, gcalEvents, freshGrid, submitted,
                    lastTrigger >>

\* the event of a fragment write made while rendering is dispatched before
\* the effects have added the listener: nothing handles it
MissedHashChange ==
    /\ ~mounted /\ hashEvents > 0
    /\ hashEvents' = hashEvents - 1
    /\ eventCauses' = Tail(eventCauses)
    /\ UNCHANGED << classesData, diningData, currentView, selectedSection, isLoading,
                    schedule, isExporting, storage, hash, submitTimer, renderPending,
                    mounted, initialSection, alertMsg, icsContent, objectUrl,
                    linkInPage, variant, gcalEvents, lastLoaded, freshGrid, submitted,
                    handled, selfEvents, lastTrigger >>

\* the user changes the fragment (address bar, history navigation, a link)
Navigate(h) ==
    /\ UserActs
    /\ h # hash
    /\ hash' = h
    /\ hashEvents' = hashEvents + 1
    /\ eventCauses' = Append(eventCauses, "navigate")
    /\ selfEvents' = 0
    /\ lastTrigger' = "navigate"
    /\ submitted' = Null
    /\ UNCHANGED << classesData, diningData, currentView, selectedSection, isLoading,
                    schedule, isExporting, storage, submitTimer, renderPending,
                    mounted, initialSection, alertMsg, icsContent, objectUrl,
                    linkInPage, variant, gcalEvents, lastLoaded, freshGrid, handled >>

\* the steps of exportToICS after generateICS that the environment may refuse
HandOffFailures == {"none", "createObjectURL", "click"}

\* exportToICS: onClick of the download button of the schedule view.  The
\* document goes to the download, not into the component's state
exportToICS(m, tickAfter, failAt) ==
    LET doc == generateICS(m.now, tickAfter, m.tz)
        failed == doc.threw \/ failAt # "none"
    IN  /\ UserActs /\ currentView = "schedule" /\ ~isExporting
        \* click() throws after createObjectURL and appendChild: neither
        \* removeChild nor revokeObjectURL runs
        /\ objectUrl' = (objectUrl \/ (~doc.threw /\ failAt = "click"))
        /\ linkInPage' = (linkInPage \/ (~doc.threw /\ failAt = "click"))
        /\ alertMsg' = IF failed THEN "Failed to download calendar. Please try again."
                       ELSE "Calendar downloaded successfully!"
        /\ isExporting' = FALSE
        /\ renderPending' = TRUE
        /\ UNCHANGED << classesData, diningData, currentView, selectedSection,
                        isLoading, schedule, storage, hash, hashEvents, submitTimer,
                        mounted, initialSection, icsContent, variant, gcalEvents,
                        lastLoaded, freshGrid, submitted,
                        eventCauses, handled, selfEvents, lastTrigger >>

Next ==
    \/ InitialLoadEffect
    \/ Render
    \/ \E value \in TypedSections : TypeSection(value)
    \/ handleSectionSubmit
    \/ SubmitTimerFires
    \/ BackClick
    \/ handleHashChange
    \/ MissedHashChange
    \/ \E h \in Fragments : Navigate(h)
    \/ \E m \in Moments, failAt \in HandOffFailures : exportToICS(m, 0, failAt)

Spec == Init /\ [][Next]_vars

-----------------------------------------------------------------------------
(* Properties of the App component                                         *)

\* the identifier in the input names no entry of sections
NamesNoSection(section) == findSectionIndex(normalizeSection(section)) = -1

NotFoundMessage == "Section not found! Please try a valid section like S01, S02, etc."

\* C6: a submit whose identifier normalizes to no entry of sections leaves the
\* stored grid, the view, the cached identifier and the fragment as they were,
\* records no load, and ends with the loading flag false
C6_NotFoundSubmitChangesNothing ==
    [][(handleSectionSubmit /\ NamesNoSection(selectedSection))
          => /\ schedule' = schedule
             /\ currentView' = currentView
             /\ storage' = storage
             /\ hash' = hash
             /\ hashEvents' = hashEvents
             /\ lastLoaded' = lastLoaded
             /\ ~submitTimer'
             /\ isLoading' = FALSE
             /\ alertMsg' = NotFoundMessage]_vars

\* C6 witness: "99" was submitted while the grid of an earlier load is held
C6_Witness ==
    /\ alertMsg = NotFoundMessage
    /\ selectedSection = Id_99
    /\ currentView = "input"
    /\ ~isLoading
    /\ schedule # <<>>
    /\ lastLoaded # Null

\* C8: whatever submits, back actions and fragment changes came before, the
\* grid held after loading a section is the grid that loading the same
\* identifier from the initial state gives: same rows, same order, same
\* occupants
C8_GridDependsOnDatasetAndSection ==
    lastLoaded # Null => schedule = freshGrid[lastLoaded]

\* C8 witness: the page opened on the cached "s01", and after a back action
\* and a rejected submit section "2" was submitted and is shown
C8_Witness ==
    /\ initialSection = Id_s01
    /\ lastLoaded = Id_2
    /\ currentView = "schedule"
    /\ alertMsg = NotFoundMessage
    /\ schedule # <<>>
    /\ schedule = freshGrid[Id_2]


\* a successful submit has run to its end: the 800 ms timer has fired, every
\* hashchange event has been handled and the last render is done, and the
\* user has not acted on the form, the Back button or the fragment since
SubmitSettled == submitted # Null /\ ~submitTimer /\ hashEvents = 0 /\ Idle

ExportFailedMessage == "Failed to download calendar. Please try again."

\* one run of exportToICS, at any moment, with any outcome of the hand-off
ExportStep ==
    \E m \in Moments, failAt \in HandOffFailures : exportToICS(m, 0, failAt)

\* C17: a run of exportToICS ends with the exporting flag false and leaves
\* the grid, the view, the selected section, the cache and the fragment as
\* they were; it shows the success or the generic failure message, and when
\* it failed no object URL and no download link is left behind.
C17_ExportLeavesNoArtefact ==
    [][ExportStep
          => /\ isExporting' = FALSE
             /\ schedule' = schedule
             /\ currentView' = currentView
             /\ selectedSection' = selectedSection
             /\ storage' = storage
             /\ hash' = hash
             /\ alertMsg' \in {ExportFailedMessage, "Calendar downloaded successfully!"}
             /\ (alertMsg' = ExportFailedMessage =>
                    objectUrl' = objectUrl /\ linkInPage' = linkInPage)]_vars


-----------------------------------------------------------------------------
(* Properties of the class rows and of the row order                       *)

\* the class rows of the stored grid
ClassRows == {i \in DOMAIN schedule : schedule[i].type = "class"}

\* the cell of row i on the day with index d of classesData.days
CellAt(i, d) == schedule[i].cells[toLowerCaseDay(At(classesData.days, d))]

\* the assignments of the resolved section that target the cell (row i, day d)
Targeting(i, d) ==
    {pa \in MatchingAssignments :
        /\ At(classesData.slots, AssignmentAt(pa).slot) = schedule[i].time
        /\ d \in classesData.patterns[pa[1]].days}

\* C18: a cell of a class row is occupied only if an assignment of the
\* resolved section with the row's slot time lies in a pattern whose days
\* contain the cell's day, the occupant is that of such an assignment, and
\* its section is the resolved section; all other cells of the row are empty.
C18_ClassCellsFromAssignments ==
    lastLoaded # Null =>
        \A i \in ClassRows : \A d \in 0..(Len(classesData.days) - 1) :
            /\ CellAt(i, d) # Undefined =>
                  /\ \E pa \in Targeting(i, d) : CellAt(i, d) = OccupantOf(AssignmentAt(pa))
                  /\ CellAt(i, d).section = At(classesData.sections, LoadedIndex)
            /\ Targeting(i, d) = {} => CellAt(i, d) = Undefined

\* C18 witness: a class row has an occupied day and an empty day, and the
\* empty cell is targeted by an assignment of another section.
C18_Witness ==
    /\ lastLoaded # Null
    /\ \E i \in ClassRows : \E d, e \in 0..(Len(classesData.days) - 1) :
          /\ CellAt(i, d) # Undefined
          /\ CellAt(i, e) = Undefined
          /\ \E p \in DOMAIN classesData.patterns :
                \E a \in DOMAIN classesData.patterns[p].assignments :
                    LET other == classesData.patterns[p].assignments[a]
                    IN  /\ other.section # LoadedIndex
                        /\ At(classesData.slots, other.slot) = schedule[i].time
                        /\ e \in classesData.patterns[p].days

\* [...classSchedule, ...diningSchedule] for the resolved section
Concatenation == getClassSchedule(LoadedIndex) \o getDiningSchedule

\* position of a row in a list of distinct rows
PositionIn(rows, row) == CHOOSE n \in DOMAIN rows : rows[n] = row

\* C19: rows with equal start minutes keep the order they have in the
\* concatenation of the class rows and the dining rows, so a class row stands
\* before a meal row that starts at the same minute.
C19_TiesKeepConcatenationOrder ==
    lastLoaded # Null =>
        /\ Len(schedule) = Len(Concatenation)
        /\ \A i, j \in DOMAIN schedule :
              (i < j /\ StartMinute(i) = StartMinute(j)) =>
                  /\ PositionIn(Concatenation, schedule[i])
                         < PositionIn(Concatenation, schedule[j])
                  /\ ~(schedule[i].type = "meal" /\ schedule[j].type = "class")

\* C19 witness: a class row and a meal row start at the same minute, the
\* class row first.
C19_Witness ==
    /\ lastLoaded # Null
    /\ \E i, j \in DOMAIN schedule :
          /\ i < j
          /\ StartMinute(i) = StartMinute(j)
          /\ schedule[i].type = "class" /\ schedule[j].type = "meal"

\* the assignment processed last among a non-empty set of assignments
LastOf(positions) ==
    CHOOSE pa \in positions : \A pb \in positions : pb = pa \/ ProcessedAfter(pa, pb)

\* C20: a cell that several assignments of the resolved section target holds
\* the occupant of the one processed last (pattern order, then assignment
\* order), and the grid has exactly one class row per slot time used by the
\* section: an overwrite adds no row.
C20_LastWriteWins ==
    lastLoaded # Null =>
        /\ \A i \in ClassRows : \A d \in 0..(Len(classesData.days) - 1) :
              Targeting(i, d) # {} =>
                  CellAt(i, d) = OccupantOf(AssignmentAt(LastOf(Targeting(i, d))))
        /\ Cardinality(ClassRows)
               = Cardinality({At(classesData.slots, AssignmentAt(pa).slot) :
                                 pa \in MatchingAssignments})

\* C20 witness: two assignments of one pattern with different occupants
\* target the same cell, and the cell holds the second one's occupant.
C20_Witness ==
    /\ lastLoaded # Null
    /\ \E i \in ClassRows : \E d \in 0..(Len(classesData.days) - 1) :
          \E pa, pb \in Targeting(i, d) :
              /\ pa[1] = pb[1] /\ pa[2] < pb[2]
              /\ OccupantOf(AssignmentAt(pa)) # OccupantOf(AssignmentAt(pb))
              /\ CellAt(i, d) = OccupantOf(AssignmentAt(pb))


-----------------------------------------------------------------------------
(* Properties of the meal rows                                             *)

\* the positions <<pattern, place in its slot list>> of the dining slot references
SlotReferences ==
    UNION {{<<p, q>> : q \in DOMAIN diningData.patterns[p].slots} :
              p \in DOMAIN diningData.patterns}

\* the time range a slot reference stands for
TimeRangeOf(pq) == At(diningData.timeRanges, diningData.patterns[pq[1]].slots[pq[2]])

\* a slot reference processed after pq writes the cell (time range, day d) too
MealOverwritten(pq, d) ==
    \E other \in SlotReferences :
        /\ ProcessedAfter(other, pq)
        /\ TimeRangeOf(other) = TimeRangeOf(pq)
        /\ d \in diningData.patterns[other[1]].days

\* some meal row keyed by `timeRange` holds `info` on day d
MealCellHolds(timeRange, d, info) ==
    \E i \in DOMAIN schedule :
        /\ schedule[i].type = "meal"
        /\ schedule[i].time = timeRange
        /\ schedule[i].cells[toLowerCaseDay(At(diningData.days, d))] = info

\* C21: the occupant written for the slot at place p of a dining pattern's
\* slot list is named meals[p], or meals[0] when p is outside meals, also when
\* the list names the same slot index more than once, and its timeRange is
\* the time of its row.
C21_MealNameByPosition ==
    lastLoaded # Null =>
        \A pq \in SlotReferences : \A d \in diningData.patterns[pq[1]].days :
            ~MealOverwritten(pq, d) =>
                MealCellHolds(TimeRangeOf(pq), d,
                              [meal |-> MealName(pq[2] - 1),
                               timeRange |-> TimeRangeOf(pq)])


-----------------------------------------------------------------------------
(* The time parser applied to ranges with any end point and to malformed   *)
(* strings                                                                 *)

\* endpoints on the hour and on the half hour, written "H.MM" then AM or PM
RangeEndpoints == {e \in Endpoints : e.dotted /\ e.m \in {0, 30}}

\* a range string in the dataset format, from endpoint a to endpoint b
RangeFromTo(a, b) == EndpointString(a) \o <<"-">> \o EndpointString(b)

WellFormedRanges == {RangeFromTo(a, b) : a, b \in RangeEndpoints}

\* the endpoint written without its AM/PM marker: "9.00"
Unmarked(e) == HourDigits(e.h) \o <<".">> \o MinuteDigits(e.m)

\* the endpoint written with a letter in place of its hour: "x.00AM"
LetterHour(e) ==
    <<"x", ".">> \o MinuteDigits(e.m) \o (IF e.p = "AM" THEN <<"A", "M">> ELSE <<"P", "M">>)

\* the endpoints the malformed strings are written from
MalformedEndpoints == {e \in RangeEndpoints : e.h \in {9, 12} /\ e.m = 0}

\* range strings whose start has no AM/PM marker or a non-numeric hour
MalformedRanges ==
    UNION {{Unmarked(a) \o <<"-">> \o Unmarked(b),
            Unmarked(a) \o <<"-">> \o EndpointString(b),
            LetterHour(a) \o <<"-">> \o LetterHour(b),
            LetterHour(a) \o <<"-">> \o EndpointString(b)} :
              a, b \in MalformedEndpoints}

\* classes.json with the one slot timeStr, held by section S01 on Sunday; no
\* dining data
InitSlot(timeStr) ==
    /\ classesData =
           [days |-> DataDays, slots |-> <<timeStr>>, subjects |-> Subjects,
            faculties |-> Faculties, rooms |-> Rooms, sections |-> Sections,
            patterns |->
                << [days |-> {0},
                    assignments |->
                        << [section |-> 0, subject |-> 0, faculty |-> 0,
                            room |-> 0, slot |-> 0] >>] >>]
    /\ diningData = DiningDataOf(<<>>)
    /\ variant = "ics"
    /\ currentView = "input"
    /\ selectedSection = Empty
    /\ isLoading = FALSE
    /\ schedule = <<>>
    /\ isExporting = FALSE
    /\ storage = Null
    /\ hash = Empty
    /\ hashEvents = 0
    /\ submitTimer = FALSE
    /\ renderPending = FALSE
    /\ mounted = TRUE
    /\ initialSection = Empty
    /\ alertMsg = ""
    /\ icsContent = <<>>
    /\ objectUrl = FALSE
    /\ linkInPage = FALSE
    /\ gcalEvents = <<>>
    /\ lastLoaded = Null
    /\ freshGrid = <<>>
    /\ submitted = Null
    /\ eventCauses = <<>>
    /\ handled = "none"
    /\ selfEvents = 0
    /\ lastTrigger = "startup"

InitRanges == \E timeStr \in WellFormedRanges \cup MalformedRanges : InitSlot(timeStr)

\* the grid is resolved (its rows sorted by timeToMinutes), then exported
\* (its instants computed by parseTimeToDate)
NextRanges ==
    \/ Resolve(Id_1)
    \/ \E m \in Moments : Serialize(m, 0)

SpecRanges == InitRanges /\ [][NextRanges]_vars

\* the slot string of the dataset
SlotString == classesData.slots[1]

\* C22: a range string with no AM/PM marker or with a non-numeric hour is a
\* parse failure: timeToMinutes gives no ordinary sort key for it,
\* parseTimeToDate gives no ordinary instant, no grid row is keyed by it and
\* no event is emitted from it.
C22_MalformedIsParseFailure ==
    SlotString \in MalformedRanges =>
        /\ timeToMinutes(SlotString).kind # "number"
        /\ \A mom \in Moments : \A dayOffset \in 0..6 :
              LET se == parseTimeToDate(SlotString, dayOffset, mom.now)
              IN  se.threw \/ ~se.start.valid
        /\ \A i \in DOMAIN schedule : schedule[i].time # SlotString
        /\ icsContent = <<>>


-----------------------------------------------------------------------------
(* Properties of navigation: back, fragment changes, startup               *)

\* the state the Back button leaves: input view, nothing selected, nothing
\* cached, empty fragment
BackState ==
    /\ currentView = "input"
    /\ selectedSection = Empty
    /\ storage = Null
    /\ hash = Empty

\* C23: the back action taken in the schedule view sets the view to input,
\* empties the selected section, removes the cached identifier and empties
\* the fragment; handling the hashchange event that this fragment change
\* caused leaves view, selection, cache and fragment as they are.
C23_BackClearsAndStays ==
    [][/\ BackClick => BackState'
       /\ (handleHashChange /\ Head(eventCauses) = "back" /\ BackState)
            => UNCHANGED << currentView, selectedSection, storage, hash >>
       /\ (handleHashChange /\ Head(eventCauses) = "back" /\ lastTrigger = "back")
            => BackState']_vars

\* C23 witness: Back was clicked while a fragment was shown, its hashchange
\* event has been handled and the page is still in the state Back left.
C23_Witness ==
    /\ lastTrigger = "back" /\ handled = "back"
    /\ hashEvents = 0 /\ Idle
    /\ lastLoaded # Null
    /\ BackState


\* the fragment is all digits
DigitFragment == hash # Empty /\ IsAllDigits(hash)

\* C24: when the hashchange event of an outside fragment change is handled:
\* an all-digit fragment that normalizes to a known section gives the
\* schedule view with that section's grid, and selection and cache equal to
\* the fragment; an all-digit fragment naming no section gives the input view,
\* selection and cache cleared and the fragment emptied; an empty or
\* non-digit fragment gives the input view with selection and cache cleared.
C24_NavigationChange ==
    [][(handleHashChange /\ Head(eventCauses) = "navigate") =>
          IF DigitFragment /\ ~NamesNoSection(hash)
          THEN /\ currentView' = "schedule"
               /\ schedule' = getCombinedSchedule(findSectionIndex(normalizeSection(hash)))
               /\ selectedSection' = hash
               /\ storage' = hash
          ELSE IF DigitFragment
          THEN /\ currentView' = "input"
               /\ selectedSection' = Empty
               /\ storage' = Null
               /\ hash' = Empty
          ELSE /\ currentView' = "input"
               /\ selectedSection' = Empty
               /\ storage' = Null]_vars

\* C24 witness: the fragment was changed to "1" from outside while another
\* state was shown, and the event has been handled.
C24_Witness ==
    /\ lastTrigger = "navigate" /\ handled = "navigate"
    /\ hashEvents = 0 /\ Idle
    /\ hash = Id_1 /\ selectedSection = Id_1 /\ storage = Id_1
    /\ currentView = "schedule"
    /\ schedule = getCombinedSchedule(0)


\* the identifier is non-empty and names a section
Resolves(section) == section # Empty /\ ~NamesNoSection(section)

\* the startup effects have run, the events they queued are handled, and the
\* user has done nothing yet
StartupSettled ==
    /\ lastTrigger = "startup"
    /\ Idle /\ hashEvents = 0

\* C25: at startup the initial identifier is the fragment when that is all
\* digits naming a known section and the cached identifier otherwise (no
\* all-digit fragment naming no section is left); once the startup effects
\* and the events they cause are handled, the view is schedule exactly when
\* the initial identifier is non-empty and resolves, and when a non-empty
\* initial identifier does not resolve the view is input and selection, cache
\* and fragment are cleared.
C25_StartupView ==
    /\ ~mounted =>
          /\ initialSection = IF DigitFragment /\ ~NamesNoSection(hash)
                              THEN hash ELSE storedOrEmpty(storage)
          /\ ~(DigitFragment /\ NamesNoSection(hash))
    /\ StartupSettled =>
          /\ currentView = "schedule" <=> Resolves(initialSection)
          /\ (initialSection # Empty /\ ~Resolves(initialSection)) => BackState


\* C26: in every state after the initial-load effect in which the view is
\* schedule, the selected section is non-empty and resolves, and the stored
\* grid is the grid resolved for it, whatever the interleaving of submit, its
\* delayed completion, back and fragment changes.
C26_ScheduleViewHasSection ==
    (mounted /\ currentView = "schedule") =>
        /\ Resolves(selectedSection)
        /\ schedule = loadScheduleForSection(selectedSection).schedule


-----------------------------------------------------------------------------
(* Fragment handling without the export, with fair scheduling              *)

\* what the user does to the page
Outside ==
    \/ \E value \in TypedSections : TypeSection(value)
    \/ handleSectionSubmit
    \/ BackClick
    \/ \E h \in Fragments : Navigate(h)

\* what the page does by itself: effects, renders, the timer, event dispatch
Inside ==
    \/ InitialLoadEffect
    \/ Render
    \/ SubmitTimerFires
    \/ handleHashChange
    \/ MissedHashChange

NextNavigation == Outside \/ Inside

\* React runs a mounted component's effects: weak fairness of
\* InitialLoadEffect, whose enabling condition is ~mounted
FairLoad == []<>mounted \/ []<><<InitialLoadEffect>>_vars

\* the browser dispatches a queued hashchange event to the listener once the
\* pending render is done: weak fairness of handleHashChange, whose enabling
\* condition is Idle /\ hashEvents > 0
FairHandler == []<>(~(Idle /\ hashEvents > 0)) \/ []<><<handleHashChange>>_vars

\* a scheduled render runs and the 800 ms timer expires
SpecNavigation ==
    /\ Init /\ [][NextNavigation]_vars
    /\ FairLoad /\ FairHandler
    /\ WF_vars(Render) /\ WF_vars(SubmitTimerFires)

\* nothing is pending: no event, no render, no timer
Quiet == mounted /\ hashEvents = 0 /\ ~renderPending /\ ~submitTimer

\* C27: fragment handling quiesces: between two triggers from outside
\* (startup, submit, back, an outside fragment change) the page's own
\* fragment writes queue at most one hashchange event, and unless the user
\* keeps acting forever the page comes to rest with no event, render or timer
\* pending.
C27_FragmentHandlingQuiesces ==
    /\ [](selfEvents <= 1)
    /\ []<><<Outside>>_vars \/ <>[]Quiet

\* C27 witness: the fragment was changed from outside to digits naming no
\* section, the handler emptied it, the event of that write was handled too
\* and the page is at rest.
C27_Witness ==
    /\ lastTrigger = "navigate" /\ handled = "handler"
    /\ selfEvents = 1
    /\ Quiet
    /\ hash = Empty


\* C28: for every event written by generateICS from a range string in the
\* dataset format (start and end hour 1..12 with AM or PM, the end possibly at
\* or after 12.00AM), DTEND is strictly later than DTSTART.
C28_EndAfterStart ==
    SlotString \in WellFormedRanges =>
        \A k \in 1..BlockCount :
            BlockLine(k, 4).value.utc > BlockLine(k, 3).value.utc

=============================================================================
